---- MODULE Spec2Model ----
(***************************************************************************)
(* scripts/download_raw_data.py: the dataset fetcher.  One process run     *)
(* parses its flags, then runs the genome path (download_file, gunzip_to,  *)
(* ensure_fai) and/or the ClinVar path (run_genomic_fm_clinvar).  The      *)
(* filesystem persists from one run of the script to the next.             *)
(*                                                                         *)
(* A file is modelled by its content class: "absent", "empty" (0 bytes),   *)
(* or a non-empty content ("trunc"/"full" for the genome artifacts,        *)
(* "A"/"B"/"C" for ClinVar files).  External tools (curl, wget, gunzip,    *)
(* samtools, pysam, download_data.py) are opaque: their exit code and what *)
(* they leave on disk are chosen nondeterministically.                     *)
(***************************************************************************)
EXTENDS Integers, Sequences, FiniteSets

VARIABLES
    have,      \* executables found on PATH (shutil.which)
    pysam,     \* TRUE iff `import pysam` succeeds
    fs,        \* data/raw/genome: file name -> content class
    ext,       \* data/genomic-FM tree: path -> content class
    cdir,      \* data/raw/clinvar: file name -> content class
    dirs,      \* which of data/raw/{clinvar,genome} exist
    runs,      \* number of process runs started so far
    pc,        \* program point of the current run
    args,      \* the flags parsed by main
    status,    \* process exit status, meaningful once pc = "exit"
    err,       \* the error that ended the run ("none" if none)
    err_rc,    \* the exit code that error reports (-1 if it reports none)
    calls,     \* child processes of this run, in order: [tool, argv, rc]
    started,   \* step functions entered in this run
    done,      \* step functions that returned normally in this run
    decisions, \* skip tests evaluated in this run: [step, was, skip]
    lib,       \* outcome of the pysam attempt of this run
    cand,      \* index into possible_cmds of the next candidate
    last_err,  \* index of the candidate whose failure last_err holds (0: None)
    todo,      \* paths the current rglob loop has still to yield
    at_start,  \* data/raw/clinvar and the directories as the run found them,
               \* and which of fetch, decompress the previous run failed in
    cdir0,     \* data/raw/clinvar as it was when harvest began
    ext0,      \* the data/genomic-FM tree as it was when harvest began
    copied     \* paths copied by harvest in this run

vars == <<have, pysam, fs, ext, cdir, dirs, runs, pc, args, status, err, err_rc,
          calls, started, done, decisions, lib, cand, last_err, todo, at_start, cdir0, ext0,
                   copied>>

(* ------------------------------ bounds -------------------------------- *)

\* process runs in one behaviour
MaxRuns == 2

(* --------------------------- fixed vocabulary -------------------------- *)

Exes == {"curl", "wget", "gunzip", "samtools"}
Flags == {"--all", "--genome", "--clinvar"}

\* the command lines the model runs the script with
ArgSets == {{}, {"--all"}, {"--genome"}, {"--clinvar"}, {"--genome", "--clinvar"}}

HG38_FASTA_GZ == "hg38.fa.gz"
HG38_FASTA == "hg38.fa"

\* Path(str(fasta_path) + ".fai")
fai_path(fasta_path) == IF fasta_path = "hg38.fa" THEN "hg38.fa.fai" ELSE "?.fai"

GenomeFiles == {HG38_FASTA_GZ, HG38_FASTA, fai_path(HG38_FASTA)}

\* exit codes a child process may return
ExitCodes == {0, 1}

\* A path below data/genomic-FM is [dir, name]; a file name is the sequence
\* of its pieces, <<"clinvar", "_2024", ".vcf", ".gz">> for clinvar_2024.vcf.gz.

\* dl_script = genomic_fm_dir / "download_data.py"
dl_script == [dir |-> ".", name |-> <<"download_data", ".py">>]

VCF_A == [dir |-> "a", name |-> <<"clinvar", "_2024", ".vcf", ".gz">>]
VCF_B == [dir |-> "b", name |-> <<"clinvar", "_2024", ".vcf", ".gz">>]
TBI_A == [dir |-> "a", name |-> <<"clinvar", "_2024", ".vcf", ".gz", ".tbi">>]

\* the paths of the data/genomic-FM tree the model follows
ExtPaths == {dl_script, VCF_A, VCF_B, TBI_A}

Names == {p.name : p \in ExtPaths}

Contents == {"absent", "empty", "A", "B", "C"}

(* ------------------------------ helpers ------------------------------- *)

\* a probe that finds every tool
have_exe_always(n) == TRUE

\* shutil.which(name) is not None
have_exe(n) == n \in have

\* path.exists(), on a content class
exists(c) == c # "absent"

\* path.stat().st_size > 0, on a content class
size_gt_0(c) == c \notin {"absent", "empty"}

\* a skip test that accepts complete files only
target_ok_complete(c) == c = "full"

\* the skip test without its size comparison
target_ok_exists_only(c) == exists(c)

\* the skip test with its size comparison reversed (st_size == 0)
target_ok_flipped(c) == exists(c) /\ ~size_gt_0(c)

\* `p.exists() and p.stat().st_size > 0`: the skip test of the genome steps
target_ok(c) == exists(c) /\ size_gt_0(c)

\* the record of one evaluation of a step's skip test on a target holding c
decision(step, c) == [step |-> step, was |-> c, skip |-> target_ok(c)]

\* run(cmd): the child process is started and waited for
run(tool, argv, rc) ==
    calls' = Append(calls, [tool |-> tool, argv |-> argv, rc |-> rc])

\* subprocess.run(cmd, check=False) never raises
check_ignored(rc) == FALSE

\* subprocess.run(cmd, check=True) raises CalledProcessError on this exit code
check_failed(rc) == rc # 0

\* an uncaught exception: traceback, exit status 1
raise(e) == /\ pc' = "exit"
            /\ status' = 1
            /\ err' = e
            /\ err_rc' = -1

\* the exception raised without the exit code in it
raise_code_dropped(e, rc) == /\ pc' = "exit"
                             /\ status' = 1
                             /\ err' = e
                             /\ err_rc' = -1

\* an uncaught exception whose message carries a child's exit code:
\* CalledProcessError.returncode, or the f-string of line 77
raise_code(e, rc) == /\ pc' = "exit"
                     /\ status' = 1
                     /\ err' = e
                     /\ err_rc' = rc

\* CLINVAR_DIR.mkdir(...); GENOME_DIR.mkdir(...)
ensure_dirs == dirs' = dirs \cup {"clinvar", "genome"}

\* line 192 testing args.genome alone
genome_selected_no_all(a) == "--genome" \in a

\* line 192: `if args.all or args.genome`
genome_selected(a) == "--all" \in a \/ "--genome" \in a

\* line 195: `if args.all or args.clinvar`
clinvar_selected(a) == "--all" \in a \/ "--clinvar" \in a

\* what a failed writer may leave at a path that held c
LeftBehind(c) == {c, "empty", "trunc"}

(* ------------------------------- Init --------------------------------- *)

Init ==
    /\ have \in SUBSET Exes
    /\ pysam \in BOOLEAN
    /\ fs = [f \in GenomeFiles |-> "absent"]
    /\ \E script \in {"absent", "A"} :
          ext = [p \in ExtPaths |-> IF p = dl_script THEN script ELSE "absent"]
    /\ cdir = [n \in Names |-> "absent"]
    /\ dirs = {}
    /\ runs = 1
    /\ pc = "main"
    /\ args = {}
    /\ status = 0
    /\ err = "none"
    /\ err_rc = -1
    /\ calls = <<>>
    /\ started = {}
    /\ done = {}
    /\ decisions = {}
    /\ lib = "untried"
    /\ cand = 1
    /\ last_err = 0
    /\ todo = {}
    /\ at_start = [cdir |-> cdir, dirs |-> dirs, failed |-> {}]
    /\ cdir0 = cdir
    /\ ext0 = ext
    /\ copied = {}

(* ------------------------------- main --------------------------------- *)

\* lines 198-199: the script is run again; the filesystem is what the
\* previous run left, PATH and the Python environment are those of the new
\* process
launch ==
    /\ pc = "exit"
    /\ runs < MaxRuns
    /\ have' \in SUBSET Exes
    /\ pysam' \in BOOLEAN
    /\ runs' = runs + 1
    /\ pc' = "main"
    /\ args' = {}
    /\ status' = 0
    /\ err' = "none"
    /\ err_rc' = -1
    /\ calls' = <<>>
    /\ started' = {}
    /\ done' = {}
    /\ decisions' = {}
    /\ lib' = "untried"
    /\ cand' = 1
    /\ last_err' = 0
    /\ todo' = {}
    /\ at_start' = [cdir |-> cdir, dirs |-> dirs,
                    failed |-> (started \ done) \cap {"download_file", "gunzip_to"}]
    /\ cdir0' = cdir
    /\ ext0' = ext
    /\ copied' = {}
    /\ UNCHANGED <<fs, ext, cdir, dirs>>

\* lines 183-196, up to the first call: parse the flags and dispatch
main ==
    /\ pc = "main"
    /\ \E a \in ArgSets :
          /\ args' = a
          /\ IF ~("--all" \in a \/ "--genome" \in a \/ "--clinvar" \in a)
             THEN \* parser.error: usage message, exit status 2
                  /\ pc' = "exit"
                  /\ status' = 2
                  /\ err' = "UsageError"
                  /\ err_rc' = -1
             ELSE /\ pc' = IF genome_selected(a) THEN "download_genome"
                           ELSE "run_genomic_fm_clinvar"
                  /\ UNCHANGED <<status, err, err_rc>>
    /\ UNCHANGED <<have, pysam, fs, ext, cdir, dirs, runs, calls, started, done,
                   decisions, lib, cand, last_err, todo, at_start, cdir0, ext0,
                   copied>>

\* lines 195-196, reached when download_genome has returned
main_clinvar ==
    /\ pc = "main_clinvar"
    /\ IF clinvar_selected(args)
       THEN /\ pc' = "run_genomic_fm_clinvar"
            /\ UNCHANGED status
       ELSE /\ pc' = "exit"
            /\ status' = 0
    /\ UNCHANGED <<have, pysam, fs, ext, cdir, dirs, runs, args, err, err_rc, calls,
                   started, done, decisions, lib, cand, last_err, todo, at_start, cdir0, ext0,
                   copied>>

(* ---------------------------- genome path ----------------------------- *)

\* lines 104-110: ensure_dirs(), then the first step
download_genome ==
    /\ pc = "download_genome"
    /\ ensure_dirs
    /\ started' = started \cup {"download_genome"}
    /\ pc' = "download_file"
    /\ UNCHANGED <<have, pysam, fs, ext, cdir, runs, args, status, err, err_rc, calls,
                   done, decisions, lib, cand, last_err, todo, at_start, cdir0, ext0,
                   copied>>

\* the probes in the other order
download_tool_wget_first == IF have_exe("wget") THEN "wget"
                            ELSE IF have_exe("curl") THEN "curl"
                            ELSE "none"

\* wget probed, curl taken for granted
download_tool_unprobed == IF have_exe("wget") THEN "wget" ELSE "curl"

\* the tool download_file picks: curl first, then wget, else none
download_tool == IF have_exe("curl") THEN "curl"
                 ELSE IF have_exe("wget") THEN "wget"
                 ELSE "none"

\* lines 58 and 60: the arguments given to the tool
download_argv(tool) ==
    IF tool = "curl" THEN <<"-L", "HG38_FASTA_URL", "-o", HG38_FASTA_GZ>>
    ELSE <<"-O", HG38_FASTA_GZ, "HG38_FASTA_URL">>

\* lines 50-62, download_file(HG38_FASTA_URL, HG38_FASTA_GZ)
download_file ==
    /\ pc = "download_file"
    /\ started' = started \cup {"download_file"}
    /\ dirs' = dirs \cup {"genome"}
    /\ decisions' = decisions \cup {decision("download_file", fs[HG38_FASTA_GZ])}
    /\ IF target_ok(fs[HG38_FASTA_GZ])
       THEN /\ done' = done \cup {"download_file"}
            /\ pc' = "gunzip_to"
            /\ UNCHANGED <<fs, calls, status, err, err_rc>>
       ELSE IF download_tool = "none"
       THEN /\ raise("NoDownloadTool")
            /\ UNCHANGED <<fs, calls, done>>
       ELSE \E rc \in ExitCodes :
            /\ run(download_tool, download_argv(download_tool), rc)
            /\ IF ~check_failed(rc)
               THEN /\ fs' = [fs EXCEPT ![HG38_FASTA_GZ] = "full"]
                    /\ done' = done \cup {"download_file"}
                    /\ pc' = "gunzip_to"
                    /\ UNCHANGED <<status, err, err_rc>>
               ELSE /\ \E c \in LeftBehind(fs[HG38_FASTA_GZ]) :
                         fs' = [fs EXCEPT ![HG38_FASTA_GZ] = c]
                    /\ raise_code("CalledProcessError", rc)
                    /\ UNCHANGED done
    /\ UNCHANGED <<have, pysam, ext, cdir, runs, args, lib, cand, last_err,
                   todo, at_start, cdir0, ext0,
                   copied>>

\* lines 64-71, gunzip_to(HG38_FASTA_GZ, HG38_FASTA) up to the checked
\* `gunzip -c`, whose output goes to the script's own stdout
gunzip_to ==
    /\ pc = "gunzip_to"
    /\ started' = started \cup {"gunzip_to"}
    /\ decisions' = decisions \cup {decision("gunzip_to", fs[HG38_FASTA])}
    /\ IF target_ok(fs[HG38_FASTA])
       THEN /\ done' = done \cup {"gunzip_to"}
            /\ pc' = "ensure_fai"
            /\ UNCHANGED <<calls, status, err, err_rc>>
       ELSE IF ~have_exe("gunzip")
       THEN /\ raise("NoGunzip")
            /\ UNCHANGED <<calls, done>>
       ELSE \E rc \in ExitCodes :
            /\ run("gunzip", <<"-c", HG38_FASTA_GZ>>, rc)
            /\ UNCHANGED done
            /\ IF ~check_failed(rc)
               THEN /\ pc' = "gunzip_popen"
                    /\ UNCHANGED <<status, err, err_rc>>
               ELSE raise_code("CalledProcessError", rc)
    /\ UNCHANGED <<have, pysam, fs, ext, cdir, dirs, runs, args, lib, cand,
                   last_err, todo, at_start, cdir0, ext0,
                   copied>>

\* what a gunzip that exits 0 writes for a source holding c
decompressed(c) == IF c = "full" THEN "full" ELSE "trunc"

\* lines 73-77: open(dst, "wb") creates or truncates the target, a second
\* `gunzip -c` streams into it, and its exit code is tested
gunzip_popen ==
    /\ pc = "gunzip_popen"
    /\ \E rc \in ExitCodes :
          /\ run("gunzip", <<"-c", HG38_FASTA_GZ>>, rc)
          /\ IF rc = 0
             THEN /\ fs' = [fs EXCEPT ![HG38_FASTA] = decompressed(fs[HG38_FASTA_GZ])]
                  /\ done' = done \cup {"gunzip_to"}
                  /\ pc' = "ensure_fai"
                  /\ UNCHANGED <<status, err, err_rc>>
             ELSE /\ \E c \in LeftBehind("empty") :
                       fs' = [fs EXCEPT ![HG38_FASTA] = c]
                  /\ raise_code("GunzipFailed", rc)
                  /\ UNCHANGED done
    /\ UNCHANGED <<have, pysam, ext, cdir, dirs, runs, args, started, decisions,
                   lib, cand, last_err, todo, at_start, cdir0, ext0,
                   copied>>

\* lines 79-92, ensure_fai(HG38_FASTA): the skip test, then the pysam attempt,
\* whose every exception (ImportError included) is swallowed
ensure_fai ==
    /\ pc = "ensure_fai"
    /\ started' = started \cup {"ensure_fai"}
    /\ decisions' = decisions \cup {decision("ensure_fai", fs[fai_path(HG38_FASTA)])}
    /\ IF target_ok(fs[fai_path(HG38_FASTA)])
       THEN /\ done' = done \cup {"ensure_fai", "download_genome"}
            /\ pc' = "main_clinvar"
            /\ UNCHANGED <<fs, lib>>
       ELSE IF ~pysam
       THEN /\ lib' = "absent"
            /\ pc' = "ensure_fai_samtools"
            /\ UNCHANGED <<fs, done>>
       ELSE \E ok \in BOOLEAN :
            IF ok
            THEN /\ lib' = "ok"
                 /\ fs' = [fs EXCEPT ![fai_path(HG38_FASTA)] = "full"]
                 /\ done' = done \cup {"ensure_fai", "download_genome"}
                 /\ pc' = "main_clinvar"
            ELSE /\ lib' = "failed"
                 /\ \E c \in LeftBehind(fs[fai_path(HG38_FASTA)]) :
                      fs' = [fs EXCEPT ![fai_path(HG38_FASTA)] = c]
                 /\ pc' = "ensure_fai_samtools"
                 /\ UNCHANGED done
    /\ UNCHANGED <<have, pysam, ext, cdir, dirs, runs, args, status, err, err_rc, calls,
                   cand, last_err, todo, at_start, cdir0, ext0,
                   copied>>

\* lines 94-102: the samtools fallback, or the error naming both options
ensure_fai_samtools ==
    /\ pc = "ensure_fai_samtools"
    /\ IF have_exe("samtools")
       THEN \E rc \in ExitCodes :
            /\ run("samtools", <<"faidx", HG38_FASTA>>, rc)
            /\ IF ~check_failed(rc)
               THEN /\ fs' = [fs EXCEPT ![fai_path(HG38_FASTA)] = "full"]
                    /\ done' = done \cup {"ensure_fai", "download_genome"}
                    /\ pc' = "main_clinvar"
                    /\ UNCHANGED <<status, err, err_rc>>
               ELSE /\ \E c \in LeftBehind(fs[fai_path(HG38_FASTA)]) :
                         fs' = [fs EXCEPT ![fai_path(HG38_FASTA)] = c]
                    /\ raise_code("CalledProcessError", rc)
                    /\ UNCHANGED done
       ELSE /\ raise("NoIndexer")
            /\ UNCHANGED <<fs, calls, done>>
    /\ UNCHANGED <<have, pysam, ext, cdir, dirs, runs, args, started, decisions,
                   lib, cand, last_err, todo, at_start, cdir0, ext0,
                   copied>>

\* what each error message names
Names_in(e) ==
    IF e = "NoDownloadTool" THEN {"curl", "wget"}
    ELSE IF e = "NoGunzip" THEN {"gunzip"}
    ELSE IF e = "NoIndexer" THEN {"pysam", "samtools"}
    ELSE IF e = "MissingScript" THEN {"data/genomic-FM/download_data.py"}
    ELSE {}

(* ---------------------------- ClinVar path ---------------------------- *)

\* the list with its first two entries exchanged
possible_cmds_swapped == << <<"--clinvar", "--output", "CLINVAR_DIR">>,
                            <<"--clinvar", "--outdir", "CLINVAR_DIR">>,
                            <<"--clinvar">> >>

\* lines 143-147: the argument sets tried, in this order
possible_cmds == << <<"--clinvar", "--outdir", "CLINVAR_DIR">>,
                    <<"--clinvar", "--output", "CLINVAR_DIR">>,
                    <<"--clinvar">> >>

\* the glob patterns of lines 168 and 174
PAT_VCF == <<"clinvar", "*", ".vcf", ".gz">>
PAT_TBI == <<"clinvar", "*", ".tbi">>

\* fnmatch on names and patterns cut into pieces: "*" matches any run of pieces
RECURSIVE fnmatch(_, _)
fnmatch(n, pat) ==
    IF pat = <<>> THEN n = <<>>
    ELSE IF Head(pat) = "*"
         THEN \E i \in 0..Len(n) : fnmatch(SubSeq(n, i + 1, Len(n)), Tail(pat))
         ELSE /\ n # <<>>
              /\ Head(n) = Head(pat)
              /\ fnmatch(Tail(n), Tail(pat))

\* genomic_fm_dir.rglob(pattern), over a tree t
rglob(t, pat) == {p \in ExtPaths : exists(t[p]) /\ fnmatch(p.name, pat)}

\* What one run of download_data.py may do to the disk: nothing, write below
\* its own directory (either exit code), or write into CLINVAR_DIR, a whole
\* file when it exits 0 and a 0-byte file when it fails.
DLEffects == {"none", "treeA", "treeB", "outdir"}

ext_after(eff) ==
    IF eff = "treeA" THEN [ext EXCEPT ![VCF_A] = "A", ![TBI_A] = "A"]
    ELSE IF eff = "treeB" THEN [ext EXCEPT ![VCF_B] = "B"]
    ELSE ext

cdir_after(eff, rc) ==
    IF eff = "outdir"
    THEN [cdir EXCEPT ![VCF_A.name] = IF rc = 0 THEN "C" ELSE "empty"]
    ELSE cdir

\* line 129 never true
script_missing_never == FALSE

\* line 129 without its `not`
script_missing_inverted == exists(ext[dl_script])

\* line 129: `if not dl_script.exists()`
script_missing == ~exists(ext[dl_script])

\* lines 115-135: ensure_dirs(), then the test for the downloader script
run_genomic_fm_clinvar ==
    /\ pc = "run_genomic_fm_clinvar"
    /\ started' = started \cup {"run_genomic_fm_clinvar"}
    /\ ensure_dirs
    /\ IF script_missing
       THEN raise("MissingScript")
       ELSE /\ pc' = "try_cmd"
            /\ UNCHANGED <<status, err, err_rc>>
    /\ cand' = 1
    /\ last_err' = 0
    /\ UNCHANGED <<have, pysam, fs, ext, cdir, runs, args, calls, done, decisions,
                   lib, todo, at_start, cdir0, ext0,
                   copied>>

\* lines 150-164: one turn of the loop over possible_cmds, and what follows
\* the loop when this turn ends it
try_cmd ==
    /\ pc = "try_cmd"
    /\ \E rc \in ExitCodes, eff \in DLEffects :
          /\ run("download_data.py", possible_cmds[cand], rc)
          /\ ext' = ext_after(eff)
          /\ cdir' = cdir_after(eff, rc)
          /\ IF ~check_failed(rc)
             THEN \* last_err = None; break; the first rglob starts
                  /\ last_err' = 0
                  /\ pc' = "harvest_vcf"
                  /\ todo' = rglob(ext', PAT_VCF)
                  /\ cdir0' = cdir'
                  /\ ext0' = ext'
                  /\ UNCHANGED <<cand, status, err, err_rc>>
             ELSE /\ last_err' = cand
                  /\ UNCHANGED <<todo, cdir0, ext0>>
                  /\ IF cand < Len(possible_cmds)
                     THEN /\ cand' = cand + 1
                          /\ UNCHANGED <<pc, status, err, err_rc>>
                     ELSE /\ raise_code("DownloaderFailed", rc)
                          /\ UNCHANGED cand
    /\ UNCHANGED <<have, pysam, fs, dirs, runs, args, started, done, decisions,
                   lib, at_start, copied>>

\* the loop body without its `if not target.exists()`
copy_always(p) ==
    /\ decisions' = decisions \cup
          {[step |-> "harvest", was |-> cdir[p.name], skip |-> FALSE]}
    /\ cdir' = [cdir EXCEPT ![p.name] = ext[p]]
    /\ copied' = copied \cup {p}

\* lines 169-172 and 175-178: the body of either harvest loop for path p
copy_if_absent(p) ==
    /\ decisions' = decisions \cup
          {[step |-> "harvest", was |-> cdir[p.name], skip |-> exists(cdir[p.name])]}
    /\ IF ~exists(cdir[p.name])
       THEN /\ cdir' = [cdir EXCEPT ![p.name] = ext[p]]
            /\ copied' = copied \cup {p}
       ELSE UNCHANGED <<cdir, copied>>

\* lines 168-172: the loop over rglob("clinvar*.vcf.gz"), in the order the
\* directory scan happens to yield
harvest_vcf ==
    /\ pc = "harvest_vcf"
    /\ IF todo = {}
       THEN /\ pc' = "harvest_tbi"
            /\ todo' = rglob(ext, PAT_TBI)
            /\ UNCHANGED <<cdir, copied, decisions>>
       ELSE \E p \in todo :
            /\ copy_if_absent(p)
            /\ todo' = todo \ {p}
            /\ UNCHANGED pc
    /\ UNCHANGED <<have, pysam, fs, ext, dirs, runs, args, status, err, err_rc, calls,
                   started, done, lib, cand, last_err, at_start, cdir0, ext0>>

\* lines 174-180: the loop over rglob("clinvar*.tbi"), then the normal return
harvest_tbi ==
    /\ pc = "harvest_tbi"
    /\ IF todo = {}
       THEN /\ pc' = "exit"
            /\ status' = 0
            /\ done' = done \cup {"run_genomic_fm_clinvar"}
            /\ UNCHANGED <<cdir, copied, decisions, todo>>
       ELSE \E p \in todo :
            /\ copy_if_absent(p)
            /\ todo' = todo \ {p}
            /\ UNCHANGED <<pc, status, done>>
    /\ UNCHANGED <<have, pysam, fs, ext, dirs, runs, args, err, err_rc, calls,
                   started, lib, cand, last_err, at_start, cdir0, ext0>>

(* --------------------------- specification ---------------------------- *)

Next ==
    \/ launch
    \/ main
    \/ main_clinvar
    \/ download_genome
    \/ download_file
    \/ gunzip_to
    \/ gunzip_popen
    \/ ensure_fai
    \/ ensure_fai_samtools
    \/ run_genomic_fm_clinvar
    \/ try_cmd
    \/ harvest_vcf
    \/ harvest_tbi

Spec == Init /\ [][Next]_vars

TypeOK ==
    /\ have \subseteq Exes
    /\ pysam \in BOOLEAN
    /\ fs \in [GenomeFiles -> {"absent", "empty", "trunc", "full"}]
    /\ ext \in [ExtPaths -> Contents]
    /\ cdir \in [Names -> Contents]
    /\ dirs \subseteq {"clinvar", "genome"}
    /\ runs \in 1..MaxRuns
    /\ args \subseteq Flags
    /\ status \in {0, 1, 2}
    /\ err_rc \in ExitCodes \cup {-1}
    /\ cand \in 1..Len(possible_cmds)
    /\ last_err \in 0..Len(possible_cmds)
    /\ todo \subseteq ExtPaths
    /\ copied \subseteq ExtPaths


(* ------------------------ vocabulary of the claims --------------------- *)

\* a file that exists with size > 0
HasBytes(c) == c \notin {"absent", "empty"}

FAI == "hg38.fa.fai"

IsDownloader(c) == c.tool = "download_data.py"

\* the invocations of download_data.py of this run, in order
DLCalls == SelectSeq(calls, IsDownloader)

Called(tool) == \E i \in 1..Len(calls) : calls[i].tool = tool

VcfName == <<"clinvar", "_2024", ".vcf", ".gz">>
TbiName == <<"clinvar", "_2024", ".vcf", ".gz", ".tbi">>

\* the harvested clinvar*.vcf.gz and clinvar*.tbi exist non-empty in d
TargetsPresent(d) == HasBytes(d[VcfName]) /\ HasBytes(d[TbiName])

\* the run ended inside the step: it was entered and did not return
FailedIn(step) == pc = "exit" /\ step \in started /\ step \notin done

(* --------------------------------- C1 ---------------------------------- *)

C1_Skip(step, file, after) ==
    (pc = step /\ HasBytes(fs[file])) =>
        /\ pc' = after
        /\ step \in done'
        /\ calls' = calls
        /\ lib' = lib
        /\ fs' = fs
        /\ err' = "none"

\* C1: download_file, gunzip_to and ensure_fai, run when their target
\* (hg38.fa.gz, hg38.fa, hg38.fa.fai) exists with size > 0, return normally
\* without starting any child process and without trying pysam, and leave
\* the genome files as they were, whatever PATH and the Python environment hold.
C1_SkipIsNoop ==
    [][ /\ C1_Skip("download_file", HG38_FASTA_GZ, "gunzip_to")
        /\ C1_Skip("gunzip_to", HG38_FASTA, "ensure_fai")
        /\ C1_Skip("ensure_fai", FAI, "main_clinvar") ]_vars

\* all three steps skipped in a run whose environment holds no tool at all
C1_Witness ==
    /\ pc = "main_clinvar"
    /\ have = {}
    /\ ~pysam
    /\ {"download_file", "gunzip_to", "ensure_fai"} \subseteq done
    /\ \A d \in decisions : d.skip
    /\ calls = <<>>
    /\ lib = "untried"

(* --------------------------------- C2 ---------------------------------- *)

\* C2 as stated: run_genomic_fm_clinvar, run when clinvar*.vcf.gz and
\* clinvar*.tbi already exist non-empty in data/raw/clinvar, does not invoke
\* download_data.py.
C2_SkipsWhenHarvested ==
    [][ (pc = "try_cmd" /\ TargetsPresent(at_start.cdir)) => calls' = calls ]_vars

\* C2 amended: run_genomic_fm_clinvar has no skip test.  Whenever it is run
\* with download_data.py present it invokes the script, first candidate
\* first, also when the harvested files already exist non-empty; only the
\* copy of a file already present in data/raw/clinvar is skipped.
C2_AlwaysInvokes ==
    /\ ( /\ "run_genomic_fm_clinvar" \in started
         /\ ext[dl_script] # "absent"
         /\ pc \in {"harvest_vcf", "harvest_tbi", "exit"} )
       => ( /\ Len(DLCalls) >= 1
            /\ DLCalls[1].argv = <<"--clinvar", "--outdir", "CLINVAR_DIR">> )
    /\ pc \in {"harvest_vcf", "harvest_tbi", "exit"}
       => \A p \in copied : cdir0[p.name] = "absent"

\* a run that found both targets non-empty, invoked the script and copied nothing
C2_Witness ==
    /\ pc = "exit"
    /\ status = 0
    /\ "run_genomic_fm_clinvar" \in done
    /\ TargetsPresent(at_start.cdir)
    /\ Len(DLCalls) >= 1
    /\ copied = {}

(* --------------------------------- C3 ---------------------------------- *)

C3_Expected == << <<"--clinvar", "--outdir", "CLINVAR_DIR">>,
                  <<"--clinvar", "--output", "CLINVAR_DIR">>,
                  <<"--clinvar">> >>

\* C3: the candidates are invoked in list order (--clinvar --outdir DIR,
\* --clinvar --output DIR, --clinvar); a candidate is invoked only after all
\* before it exited non-zero and none after an exit 0; the step fails with
\* the downloader error, reporting the last candidate's failure, exactly
\* when all three exited non-zero.
C3_CandidateOrder ==
    LET D == DLCalls IN
    /\ Len(D) <= 3
    /\ \A i \in 1..Len(D) : D[i].argv = C3_Expected[i]
    /\ \A i \in 1..(Len(D) - 1) : D[i].rc # 0
    /\ pc \in {"harvest_vcf", "harvest_tbi"} => (Len(D) >= 1 /\ D[Len(D)].rc = 0)
    /\ pc = "exit" =>
          /\ err = "DownloaderFailed" <=>
                (Len(D) = 3 /\ \A i \in 1..3 : D[i].rc # 0)
          /\ err = "DownloaderFailed" => (last_err = 3 /\ status # 0)
          /\ "run_genomic_fm_clinvar" \in done => D[Len(D)].rc = 0

\* the third candidate succeeded after the first two had failed
C3_Witness ==
    /\ pc = "exit"
    /\ status = 0
    /\ Len(DLCalls) = 3
    /\ DLCalls[1].rc # 0
    /\ DLCalls[2].rc # 0
    /\ DLCalls[3].rc = 0

(* --------------------------------- C4 ---------------------------------- *)

\* C4 as stated: pysam is tried first and samtools is invoked only when the
\* library is absent or its call failed; ensure_fai fails only where both
\* pysam and samtools are unavailable, with the error naming both.
C4_FailsOnlyWhenBothMissing ==
    /\ Called("samtools") => lib \in {"absent", "failed"}
    /\ FailedIn("ensure_fai") =>
          /\ ~pysam
          /\ "samtools" \notin have
          /\ err = "NoIndexer"
          /\ Names_in(err) = {"pysam", "samtools"}

\* C4 amended: pysam is tried first and samtools is invoked only when the
\* library is absent or its call failed; ensure_fai fails only when the
\* library did not succeed (absent, or its call failed) and samtools is
\* unavailable or exits non-zero: with samtools unavailable the error names
\* both options, with samtools failing its CalledProcessError is propagated.
C4_FallbackThenFail ==
    /\ Called("samtools") => lib \in {"absent", "failed"}
    /\ pc = "ensure_fai_samtools" => lib \in {"absent", "failed"}
    /\ lib = "absent" => ~pysam
    /\ lib \in {"ok", "failed"} => pysam
    /\ lib = "ok" => ~Called("samtools")
    /\ FailedIn("ensure_fai") =>
          /\ lib \in {"absent", "failed"}
          /\ IF "samtools" \in have
             THEN /\ err = "CalledProcessError"
                  /\ calls[Len(calls)].tool = "samtools"
                  /\ calls[Len(calls)].rc # 0
             ELSE /\ err = "NoIndexer"
                  /\ Names_in(err) = {"pysam", "samtools"}
                  /\ ~Called("samtools")

\* pysam is installed but its call failed, and samtools is not on PATH
C4_Witness ==
    /\ FailedIn("ensure_fai")
    /\ pysam
    /\ lib = "failed"
    /\ "samtools" \notin have
    /\ err = "NoIndexer"

(* --------------------------------- C5 ---------------------------------- *)

\* the files of the tree that match clinvar*.vcf.gz or clinvar*.tbi
C5_Matching == {VCF_A, VCF_B, TBI_A}

HarvestDone == pc = "exit" /\ "run_genomic_fm_clinvar" \in done

\* C5 as stated: harvest copies every matching file of the tree whose name
\* was absent from data/raw/clinvar, leaves every file that was present there
\* as it was, and leaves the tree unchanged.
C5_CopiesEveryFile ==
    HarvestDone =>
        /\ \A p \in C5_Matching :
              (ext0[p] # "absent" /\ cdir0[p.name] = "absent")
                 => (p \in copied /\ cdir[p.name] = ext0[p])
        /\ \A n \in Names : cdir0[n] # "absent" => cdir[n] = cdir0[n]
        /\ ext = ext0

\* C5 amended: for every name of a matching file that was absent from
\* data/raw/clinvar, harvest copies exactly one file of that name (the first
\* the scan yields; a file of the same name in another subdirectory is
\* skipped); it copies nothing else, leaves every file that was present
\* there as it was, and leaves the tree unchanged.
C5_CopiesOnePerName ==
    /\ pc \in {"harvest_vcf", "harvest_tbi"} =>
          /\ \A n \in Names : cdir0[n] # "absent" => cdir[n] = cdir0[n]
          /\ ext = ext0
    /\ HarvestDone =>
          /\ \A n \in Names :
                LET S == {p \in C5_Matching : p.name = n /\ ext0[p] # "absent"}
                    K == {q \in copied : q.name = n}
                IN  IF cdir0[n] = "absent" /\ S # {}
                    THEN \E p \in S : K = {p} /\ cdir[n] = ext0[p]
                    ELSE K = {} /\ cdir[n] = cdir0[n]
          /\ ext = ext0

\* two files of one name and different content in the tree, the name absent
\* from data/raw/clinvar: b/ was copied, a/ was not
C5_Witness ==
    /\ HarvestDone
    /\ ext0[VCF_A] = "A"
    /\ ext0[VCF_B] = "B"
    /\ cdir0[VcfName] = "absent"
    /\ copied = {VCF_B, TBI_A}
    /\ cdir[VcfName] = "B"

(* --------------------------------- C6 ---------------------------------- *)

\* C6: download_file, run with hg38.fa.gz absent or empty and neither curl
\* nor wget on PATH, fails with the error asking for curl or wget, starts no
\* child process and leaves hg38.fa.gz as it was (absent stays absent).
C6_NoToolEnvError ==
    \A d \in decisions :
        ( /\ d.step = "download_file"
          /\ ~HasBytes(d.was)
          /\ "curl" \notin have
          /\ "wget" \notin have )
        => /\ pc = "exit"
           /\ status # 0
           /\ err = "NoDownloadTool"
           /\ Names_in(err) = {"curl", "wget"}
           /\ calls = <<>>
           /\ lib = "untried"
           /\ fs[HG38_FASTA_GZ] = d.was
           /\ "download_file" \notin done

\* the error raised over a 0-byte hg38.fa.gz, which is still 0 bytes
C6_Witness ==
    /\ pc = "exit"
    /\ err = "NoDownloadTool"
    /\ [step |-> "download_file", was |-> "empty", skip |-> FALSE] \in decisions
    /\ fs[HG38_FASTA_GZ] = "empty"
    /\ have \cap {"curl", "wget"} = {}

(* --------------------------------- C7 ---------------------------------- *)

\* what each genome step did after its skip test on a target holding d.was
C7_Fetch(d) ==
    d.step = "download_file" =>
        IF HasBytes(d.was)
        THEN "download_file" \in done /\ ~Called("curl") /\ ~Called("wget")
        ELSE \/ Len(calls) >= 1 /\ calls[1].tool \in {"curl", "wget"}
             \/ FailedIn("download_file") /\ err = "NoDownloadTool"

C7_Decompress(d) ==
    d.step = "gunzip_to" =>
        IF HasBytes(d.was)
        THEN "gunzip_to" \in done /\ ~Called("gunzip")
        ELSE \/ Called("gunzip")
             \/ FailedIn("gunzip_to") /\ err = "NoGunzip"

C7_Index(d) ==
    d.step = "ensure_fai" =>
        IF HasBytes(d.was)
        THEN "ensure_fai" \in done /\ lib = "untried" /\ ~Called("samtools")
        ELSE lib # "untried"

\* C7 as stated: over a 0-byte hg38.fa.gz download_file does not skip, it
\* invokes curl or wget or fails for want of both; and every skip test of
\* the script skips if and only if the target exists and has size > 0.
C7_EverySkipNeedsBytes ==
    \A d \in decisions :
        /\ d.skip <=> HasBytes(d.was)
        /\ C7_Fetch(d)
        /\ C7_Decompress(d)
        /\ C7_Index(d)

\* C7 amended: over a 0-byte hg38.fa.gz download_file does not skip, it
\* invokes curl or wget or fails for want of both; download_file, gunzip_to
\* and ensure_fai skip if and only if their target exists and has size > 0;
\* the harvest copy skips if and only if its target exists, 0 bytes included.
C7_SkipRules ==
    \A d \in decisions :
        /\ IF d.step = "harvest"
           THEN d.skip <=> d.was # "absent"
           ELSE d.skip <=> HasBytes(d.was)
        /\ C7_Fetch(d)
        /\ C7_Decompress(d)
        /\ C7_Index(d)

\* a 0-byte hg38.fa.gz was found and a download tool was invoked again
C7_Witness ==
    /\ [step |-> "download_file", was |-> "empty", skip |-> FALSE] \in decisions
    /\ Len(calls) >= 1
    /\ calls[1].tool \in {"curl", "wget"}

(* --------------------------------- C8 ---------------------------------- *)

\* C8: when run_genomic_fm_clinvar is run and data/genomic-FM/download_data.py
\* does not exist, the process ends with non-zero status and a message naming
\* that path, no candidate is invoked, nothing is copied and
\* data/raw/clinvar is as the run found it.
C8_MissingScript ==
    ("run_genomic_fm_clinvar" \in started /\ ext[dl_script] = "absent")
    => /\ pc = "exit"
       /\ status # 0
       /\ err = "MissingScript"
       /\ "data/genomic-FM/download_data.py" \in Names_in(err)
       /\ Len(DLCalls) = 0
       /\ copied = {}
       /\ cdir = at_start.cdir

\* --all: the genome path completed, then the script was found missing
C8_Witness ==
    /\ pc = "exit"
    /\ args = {"--all"}
    /\ "download_genome" \in done
    /\ "run_genomic_fm_clinvar" \in started
    /\ ext[dl_script] = "absent"
    /\ err = "MissingScript"

(* --------------------------------- C9 ---------------------------------- *)

GenomeSteps == {"download_genome", "download_file", "gunzip_to", "ensure_fai"}

\* C9: the genome path is run if and only if --all or --genome is given,
\* the ClinVar path only if --all or --clinvar is given, and with no flag
\* the process ends with a usage error and non-zero status, having entered
\* no step, started no child process and created no directory.
C9_FlagDispatch ==
    /\ started \cap GenomeSteps # {} => ("--all" \in args \/ "--genome" \in args)
    /\ (pc \notin {"main", "download_genome"} /\ ("--all" \in args \/ "--genome" \in args))
          => "download_genome" \in started
    /\ "run_genomic_fm_clinvar" \in started
          => ("--all" \in args \/ "--clinvar" \in args)
    /\ (pc # "main" /\ args = {})
          => /\ pc = "exit"
             /\ err = "UsageError"
             /\ status # 0
             /\ started = {}
             /\ calls = <<>>
             /\ lib = "untried"
             /\ dirs = at_start.dirs
             /\ cdir = at_start.cdir

\* the usage error of a first run: no directory exists
C9_Witness ==
    /\ pc = "exit"
    /\ args = {}
    /\ err = "UsageError"
    /\ status = 2
    /\ dirs = {}

(* --------------------------------- C10 --------------------------------- *)

\* C10 as stated: once any child process (curl, wget, gunzip, samtools,
\* download_data.py) has exited non-zero, no further child is started and
\* the process ends with non-zero status.
C10_EveryFailureFatal ==
    \A i \in 1..Len(calls) :
        calls[i].rc # 0 => (i = Len(calls) /\ pc = "exit" /\ status # 0)

\* C10 amended: a non-zero exit of curl, wget, gunzip or samtools is fatal:
\* no further child is started and the process ends with non-zero status.
\* A non-zero exit of download_data.py is fatal only for the last candidate:
\* after the first or second candidate fails the next one is invoked, and
\* the run goes on to harvest when a later candidate exits 0.
C10_FailureFatalButCandidates ==
    \A i \in 1..Len(calls) :
        calls[i].rc # 0 =>
            IF ~IsDownloader(calls[i])
            THEN i = Len(calls) /\ pc = "exit" /\ status # 0
            ELSE IF calls[i].argv # <<"--clinvar">>
            THEN \/ i = Len(calls) /\ pc = "try_cmd"
                 \/ i < Len(calls) /\ IsDownloader(calls[i + 1])
            ELSE i = Len(calls) /\ pc = "exit" /\ status # 0

\* the second gunzip, streaming into hg38.fa, exited non-zero and ended the run
C10_Witness ==
    /\ pc = "exit"
    /\ status = 1
    /\ err = "GunzipFailed"
    /\ Len(calls) = 3
    /\ calls[3].tool = "gunzip"
    /\ calls[3].rc # 0

(* --------------------------------- C11 --------------------------------- *)

\* the step returned after a skip or after a child or library call that succeeded
C11_DoneBy(step, tools) ==
    step \in done =>
        \/ \E d \in decisions : d.step = step /\ HasBytes(d.was)
        \/ \E i \in 1..Len(calls) : calls[i].tool \in tools /\ calls[i].rc = 0
        \/ step = "ensure_fai" /\ lib = "ok"

\* C11: the steps run in a fixed order, each started only after every
\* earlier one returned (after a skip or a successful invocation):
\* gunzip_to never before download_file is done, ensure_fai never before
\* gunzip_to is done, and under --all download_data.py is never invoked
\* unless all three are done in this run.
C11_StepOrder ==
    /\ "gunzip_to" \in started => "download_file" \in done
    /\ "ensure_fai" \in started => "gunzip_to" \in done
    /\ Called("gunzip") => "download_file" \in done
    /\ (Called("samtools") \/ lib # "untried") => "gunzip_to" \in done
    /\ ("--all" \in args /\ ("run_genomic_fm_clinvar" \in started \/ Len(DLCalls) >= 1))
          => {"download_file", "gunzip_to", "ensure_fai"} \subseteq done
    /\ C11_DoneBy("download_file", {"curl", "wget"})
    /\ C11_DoneBy("gunzip_to", {"gunzip"})
    /\ C11_DoneBy("ensure_fai", {"samtools"})

\* --all: fetch by curl, decompress by gunzip, index by pysam, then the downloader
C11_Witness ==
    /\ args = {"--all"}
    /\ Len(calls) = 4
    /\ calls[1].tool = "curl"
    /\ calls[2].tool = "gunzip"
    /\ calls[3].tool = "gunzip"
    /\ lib = "ok"
    /\ IsDownloader(calls[4])
    /\ {"download_file", "gunzip_to", "ensure_fai"} \subseteq done

(* --------------------------------- C12 --------------------------------- *)

\* C12: a run that finds hg38.fa.gz or hg38.fa truncated but non-empty (as
\* a failed earlier run leaves it, nothing being cleaned up) skips that
\* step, leaves the truncated file as it is and goes on to the next step
\* with it.
C12_TruncatedTreatedComplete ==
    \A d \in decisions :
        /\ (d.step = "download_file" /\ d.was = "trunc") =>
              /\ "download_file" \in done
              /\ fs[HG38_FASTA_GZ] = "trunc"
              /\ ~Called("curl")
              /\ ~Called("wget")
              /\ pc = "gunzip_to" \/ "gunzip_to" \in started
        /\ (d.step = "gunzip_to" /\ d.was = "trunc") =>
              /\ "gunzip_to" \in done
              /\ fs[HG38_FASTA] = "trunc"
              /\ ~Called("gunzip")
              /\ pc = "ensure_fai" \/ "ensure_fai" \in started

\* the first run failed in download_file and left a truncated hg38.fa.gz;
\* the second run skipped the fetch, decompressed the truncated file and
\* built the index over the result
C12_Witness ==
    /\ runs = 2
    /\ "download_file" \in at_start.failed
    /\ [step |-> "download_file", was |-> "trunc", skip |-> TRUE] \in decisions
    /\ fs[HG38_FASTA_GZ] = "trunc"
    /\ Called("gunzip")
    /\ fs[HG38_FASTA] = "trunc"
    /\ "ensure_fai" \in done

(* --------------------------------- C13 --------------------------------- *)

\* the positions of the download tools among this run's child processes
C13_Downloads == {i \in 1..Len(calls) : calls[i].tool \in {"curl", "wget"}}

C13_CurlFirst ==
    /\ Called("wget") => "curl" \notin have
    /\ Called("curl") => "curl" \in have
    /\ \A i \in C13_Downloads :
          (calls[i].tool = "curl" /\ calls[i].rc # 0) =>
              /\ ~Called("wget")
              /\ FailedIn("download_file")
              /\ err = "CalledProcessError"
              /\ i = Len(calls)

\* C13 as stated: a fetch that does not skip invokes exactly one download
\* tool, curl if available and wget only when curl is unavailable; a curl
\* that exits non-zero ends the step without wget being tried.
C13_ExactlyOneTool ==
    /\ \A d \in decisions :
          (d.step = "download_file" /\ ~HasBytes(d.was))
             => Cardinality(C13_Downloads) = 1
    /\ C13_CurlFirst

\* C13 amended: a fetch that does not skip invokes exactly one download tool
\* when curl or wget is available, and none when neither is; curl if
\* available and wget only when curl is unavailable; a curl that exits
\* non-zero ends the step without wget being tried.
C13_OneToolIfAny ==
    /\ \A d \in decisions :
          (d.step = "download_file" /\ ~HasBytes(d.was))
             => IF "curl" \in have
                THEN Cardinality(C13_Downloads) = 1 /\ calls[1].tool = "curl"
                ELSE IF "wget" \in have
                THEN Cardinality(C13_Downloads) = 1 /\ calls[1].tool = "wget"
                ELSE C13_Downloads = {}
    /\ \A d \in decisions :
          (d.step = "download_file" /\ HasBytes(d.was)) => C13_Downloads = {}
    /\ C13_CurlFirst

\* curl exited non-zero with wget on PATH: the run ended there
C13_Witness ==
    /\ pc = "exit"
    /\ {"curl", "wget"} \subseteq have
    /\ Len(calls) = 1
    /\ calls[1].tool = "curl"
    /\ calls[1].rc # 0
    /\ err = "CalledProcessError"

(* --------------------------------- C14 --------------------------------- *)

\* the positions of gunzip among this run's child processes
C14_Gunzips == {i \in 1..Len(calls) : calls[i].tool = "gunzip"}

\* C14: whenever a gunzip exits non-zero gunzip_to fails, the error carries
\* that exit code, ensure_fai is not entered, and hg38.fa is not removed
\* (untouched after the first gunzip, still present after the second); with
\* gunzip not on PATH and hg38.fa absent or empty, the step fails with the
\* error asking for gunzip and hg38.fa is as it was.
C14_GunzipFailure ==
    /\ \A i \in C14_Gunzips :
          calls[i].rc # 0 =>
              /\ i = Len(calls)
              /\ FailedIn("gunzip_to")
              /\ status # 0
              /\ err \in {"CalledProcessError", "GunzipFailed"}
              /\ err_rc = calls[i].rc
              /\ "ensure_fai" \notin started
              /\ IF Cardinality(C14_Gunzips) = 1
                 THEN /\ err = "CalledProcessError"
                      /\ \E d \in decisions :
                            d.step = "gunzip_to" /\ fs[HG38_FASTA] = d.was
                 ELSE /\ err = "GunzipFailed"
                      /\ fs[HG38_FASTA] # "absent"
    /\ \A d \in decisions :
          (d.step = "gunzip_to" /\ ~HasBytes(d.was) /\ "gunzip" \notin have) =>
              /\ FailedIn("gunzip_to")
              /\ status # 0
              /\ err = "NoGunzip"
              /\ Names_in(err) = {"gunzip"}
              /\ C14_Gunzips = {}
              /\ fs[HG38_FASTA] = d.was

\* the streaming gunzip failed and left a truncated hg38.fa behind
C14_Witness ==
    /\ pc = "exit"
    /\ err = "GunzipFailed"
    /\ Cardinality(C14_Gunzips) = 2
    /\ err_rc = calls[Len(calls)].rc
    /\ err_rc # 0
    /\ fs[HG38_FASTA] = "trunc"
    /\ "ensure_fai" \notin started

(* --------------------------------- C15 --------------------------------- *)

C16_HarvestAfterSuccess ==
    LET harvested == copied # {} \/ \E d \in decisions : d.step = "harvest"
        D == DLCalls
    IN  /\ (harvested \/ pc \in {"harvest_vcf", "harvest_tbi"})
              => (Len(D) >= 1 /\ D[Len(D)].rc = 0)
        /\ ext[dl_script] = "absent" => ~harvested
        /\ (Len(D) = 3 /\ \A i \in 1..3 : D[i].rc # 0) =>
              /\ ~harvested
              /\ pc = "exit"
              /\ status # 0

\* all three candidates failed while matching files lay in the tree and
\* none in data/raw/clinvar: nothing was copied
C16_Witness ==
    /\ pc = "exit"
    /\ err = "DownloaderFailed"
    /\ Len(DLCalls) = 3
    /\ ext[VCF_A] = "A"
    /\ ext[TBI_A] = "A"
    /\ cdir[VcfName] = "absent"
    /\ cdir[TbiName] = "absent"
    /\ copied = {}

====
